---------------------------- MODULE Spec2Model ----------------------------
(***************************************************************************)
(* Model of the squash court booking application (src/app.py): play        *)
(* requests, bookings, match proposals and club hours held in a document   *)
(* store, the greedy matching engine try_autopair and the admin handlers.  *)
(*                                                                         *)
(* A time of day (datetime.time) is a number of minutes since midnight.    *)
(* A stored "HH:MM" string is the tuple of its four digits, so that        *)
(* parse_hhmm, strftime and the store's string comparisons are modelled    *)
(* by what they do.  A document id (ObjectId) is a positive integer taken  *)
(* from a per-collection counter and never reused.                         *)
(***************************************************************************)
EXTENDS Integers, Sequences, FiniteSets, TLC

(***************************************************************************)
(* Bounds of the model and program constants.                              *)
(***************************************************************************)
MaxOps == 4           \* requests the server handles in one behaviour
MaxRequests == 3      \* play requests ever inserted
NumProcs == 2         \* workers handling requests concurrently
MaxRaceOps == 3       \* requests the concurrent workers handle in one behaviour
MaxEngineOps == 3     \* requests handled after the courts were block-booked
NumTimes == 4         \* times of day on the quarter-hour grid given to the utilities
MaxAdminOps == 3      \* approve and reject requests the admin sends
MaxCourtOps == 5      \* requests handled before a court is queried
NumCourts == 4        \* seed_courts_if_needed: range(4)
StepMin == 15         \* try_autopair: step_min=15
LevelBand == 1        \* candidates: level within +-1
LevelWeight == 5      \* score = overlap + 5 * level_pen
Sentinel == -1000000000   \* best_score = -10**9
DayMinutes == 1440    \* datetime.time wraps at midnight
None == -1            \* Python's None where a time is expected

Courts == 1 .. NumCourts

\* The two calendar dates of the model: a Saturday and the Sunday after it.
DateSat == "2026-11-07"
DateSun == "2026-11-08"
Dates == {DateSat, DateSun}

\* datetime.strptime(date_str, "%Y-%m-%d").weekday(), 0 = Monday .. 6 = Sunday
weekday(date_str) == IF date_str = DateSat THEN 5 ELSE 6

Weekdays == 0 .. 6

(***************************************************************************)
(* Inputs of the forms.                                                    *)
(***************************************************************************)
Levels == {1, 2, 3}
\* (start, end, duration) of a play request form, times in minutes:
\* 09:30-11:00 for 60 minutes, 10:00-11:30 for 45 minutes, and one with end <= start
RequestForms == {<<570, 660, 60>>, <<600, 690, 45>>, <<660, 600, 45>>}
\* (start, end, duration) of an edit form of a play request: 09:30-11:30 for 45
\* minutes, and one with end <= start
EditForms == {<<570, 690, 45>>, <<660, 600, 45>>}
\* (start, end) of a booking form: 09:30-10:45, and one with end <= start
BookingWindows == {<<570, 645>>, <<690, 630>>}
\* courts a booking form selects
FormCourts == {1, 2}
\* levels and (start, end, duration) of the play request forms submitted to
\* the concurrent workers
RaceLevels == {2, 3}
RaceForms == {<<570, 660, 60>>, <<660, 600, 45>>}

\* (level, start, end, duration) of the play request forms submitted when
\* courts are block-booked: 10:00-11:30 for 60 minutes at levels 3 and 2,
\* 09:30-11:00 for 45 minutes, 18:00-20:00 and 19:00-21:00 for 60 minutes,
\* one with end <= start and 09:00-09:45, before the club opens
EngineForms ==
    { <<3, 600, 690, 60>>, <<2, 600, 690, 60>>, <<3, 570, 660, 45>>,
      <<3, 1080, 1200, 60>>, <<3, 1140, 1260, 60>>,
      <<3, 660, 600, 45>>, <<3, 540, 585, 45>> }

Max2(a, b) == IF a >= b THEN a ELSE b
Min2(a, b) == IF a <= b THEN a ELSE b
Abs(x) == IF x < 0 THEN -x ELSE x
MinOf(S) == CHOOSE x \in S : \A y \in S : x <= y

(***************************************************************************)
(* Utilities                                                               *)
(***************************************************************************)
\* time.strftime("%H:%M"): the four digits of a time of day
strftime(t) ==
    << (t \div 60) \div 10, (t \div 60) % 10, (t % 60) \div 10, (t % 60) % 10 >>

\* parse_hhmm: datetime.strptime(s, "%H:%M").time()
parse_hhmm(s) == (s[1] * 10 + s[2]) * 60 + (s[3] * 10 + s[4])

\* the store's $lt on two "HH:MM" strings: lexicographic order of the characters
RECURSIVE StrLtFrom(_, _, _)
StrLtFrom(a, b, i) ==
    IF i > Len(a) \/ i > Len(b) THEN Len(a) < Len(b)
    ELSE IF a[i] # b[i] THEN a[i] < b[i]
    ELSE StrLtFrom(a, b, i + 1)

StrLt(a, b) == StrLtFrom(a, b, 1)

\* minutes_overlap that returns the bounds of the first interval
minutes_overlap_FirstBounds(a_start, a_end, b_start, b_end) ==
    LET start == Max2(a_start, b_start)
        end == Min2(a_end, b_end)
    IN  IF start >= end
        THEN [mins |-> 0, start |-> None, end |-> None]
        ELSE [mins |-> end - start, start |-> a_start, end |-> a_end]

minutes_overlap(a_start, a_end, b_start, b_end) ==
    LET start == Max2(a_start, b_start)
        end == Min2(a_end, b_end)
    IN  IF start >= end
        THEN [mins |-> 0, start |-> None, end |-> None]
        ELSE [mins |-> end - start, start |-> start, end |-> end]

\* the while loop that goes on while the slot starts before the end
RECURSIVE SlotsFrom_Overrun(_, _, _, _)
SlotsFrom_Overrun(dt, end_dt, duration_min, step_min) ==
    IF dt < end_dt
    THEN << << dt % DayMinutes, (dt + duration_min) % DayMinutes >> >>
         \o SlotsFrom_Overrun(dt + step_min, end_dt, duration_min, step_min)
    ELSE << >>

\* the while loop of discrete_slots, from datetime dt on
RECURSIVE SlotsFrom(_, _, _, _)
SlotsFrom(dt, end_dt, duration_min, step_min) ==
    IF dt + duration_min <= end_dt
    THEN << << dt % DayMinutes, (dt + duration_min) % DayMinutes >> >>
         \o SlotsFrom(dt + step_min, end_dt, duration_min, step_min)
    ELSE << >>

\* discrete_slots that makes every slot one hour long
discrete_slots_HourLong(start, end, duration_min, step_min) ==
    SlotsFrom(start, end, 60, step_min)

discrete_slots(start, end, duration_min, step_min) ==
    SlotsFrom(start, end, duration_min, step_min)

ActiveStatuses == {"tentative", "confirmed"}

\* court_is_free that looks at confirmed bookings only
court_is_free_ConfirmedOnly(bk, date_str, court_id, slot_start, slot_end) ==
    \A b \in DOMAIN bk :
        (bk[b].date = date_str /\ bk[b].court_id = court_id
            /\ bk[b].status = "confirmed")
        => (slot_end <= parse_hhmm(bk[b].start) \/ slot_start >= parse_hhmm(bk[b].end))

\* court_is_free for which a booking that touches the slot at an endpoint blocks
court_is_free_TouchBlocks(bk, date_str, court_id, slot_start, slot_end) ==
    \A b \in DOMAIN bk :
        (bk[b].date = date_str /\ bk[b].court_id = court_id
            /\ bk[b].status \in ActiveStatuses)
        => (slot_end < parse_hhmm(bk[b].start) \/ slot_start > parse_hhmm(bk[b].end))

\* bk is the bookings collection: a function from booking ids to documents
court_is_free(bk, date_str, court_id, slot_start, slot_end) ==
    \A b \in DOMAIN bk :
        (bk[b].date = date_str /\ bk[b].court_id = court_id
            /\ bk[b].status \in ActiveStatuses)
        => (slot_end <= parse_hhmm(bk[b].start) \/ slot_start >= parse_hhmm(bk[b].end))

\* court_is_free_excluding that excludes no booking
court_is_free_excluding_None(bk, date_str, court_id, slot_start, slot_end, exclude_id) ==
    LET s_start == strftime(slot_start)
        s_end == strftime(slot_end)
        conflict == {b \in DOMAIN bk :
                        /\ bk[b].date = date_str
                        /\ bk[b].court_id = court_id
                        /\ bk[b].status \in ActiveStatuses
                        /\ StrLt(bk[b].start, s_end)
                        /\ StrLt(s_start, bk[b].end)}
    IN  conflict = {}

court_is_free_excluding(bk, date_str, court_id, slot_start, slot_end, exclude_id) ==
    LET s_start == strftime(slot_start)
        s_end == strftime(slot_end)
        conflict == {b \in DOMAIN bk :
                        /\ b # exclude_id
                        /\ bk[b].date = date_str
                        /\ bk[b].court_id = court_id
                        /\ bk[b].status \in ActiveStatuses
                        /\ StrLt(bk[b].start, s_end)
                        /\ StrLt(s_start, bk[b].end)}
    IN  conflict = {}

(***************************************************************************)
(* Club hours                                                              *)
(***************************************************************************)
\* seed_default_hours: Mon-Sat open 10:00-22:00, Sun closed
DefaultRule(wd) ==
    IF wd <= 5
    THEN [is_open |-> TRUE, open |-> strftime(600), close |-> strftime(1320)]
    ELSE [is_open |-> FALSE, open |-> strftime(0), close |-> strftime(0)]

\* a rule an admin submits for one weekday; with is_open unchecked the times
\* are left at the form's 10:00 and 22:00
OpenRule(open, close) == [is_open |-> TRUE, open |-> strftime(open), close |-> strftime(close)]
ClosedRule == [is_open |-> FALSE, open |-> strftime(600), close |-> strftime(1320)]

\* the (Saturday, Sunday) rules of the hours forms an admin submits: Saturday
\* shortened to 10:15-11:30 or closed, Sunday opened 10:00-22:00
HoursChoices ==
    { << OpenRule(615, 690), OpenRule(600, 1320) >>,
      << ClosedRule, OpenRule(600, 1320) >> }

\* hrs is the availability_rules collection: a function from weekdays to rules
get_club_hours(hrs, date_str) ==
    LET wd == weekday(date_str)
    IN  IF wd \notin DOMAIN hrs
        THEN IF wd <= 5
             THEN [open |-> 600, close |-> 1320, is_open |-> TRUE]
             ELSE [open |-> 0, close |-> 0, is_open |-> FALSE]
        ELSE IF ~hrs[wd].is_open
             THEN [open |-> 0, close |-> 0, is_open |-> FALSE]
             ELSE [open |-> parse_hhmm(hrs[wd].open),
                   close |-> parse_hhmm(hrs[wd].close), is_open |-> TRUE]

\* clamp_to_hours that clamps the start only
clamp_to_hours_StartOnly(hrs, date_str, start, end) ==
    LET h == get_club_hours(hrs, date_str)
        s == Max2(start, h.open)
        e == end
    IN  IF ~h.is_open THEN [s |-> None, e |-> None, is_open |-> FALSE]
        ELSE IF s >= e THEN [s |-> None, e |-> None, is_open |-> FALSE]
        ELSE [s |-> s, e |-> e, is_open |-> TRUE]

clamp_to_hours(hrs, date_str, start, end) ==
    LET h == get_club_hours(hrs, date_str)
        s == Max2(start, h.open)
        e == Min2(end, h.close)
    IN  IF ~h.is_open THEN [s |-> None, e |-> None, is_open |-> FALSE]
        ELSE IF s >= e THEN [s |-> None, e |-> None, is_open |-> FALSE]
        ELSE [s |-> s, e |-> e, is_open |-> TRUE]

(***************************************************************************)
(* The store.  A database value D is a record of the collections:          *)
(*   req  play_requests   id -> [level, date, start, end, duration, status]*)
(*   bk   bookings        id -> [date, court_id, start, end, status]       *)
(*   pr   match_proposals id -> [request_a_id, request_b_id, date,         *)
(*                               slot_start, slot_end, court_id, status,   *)
(*                               level_a, level_b, booking_id]             *)
(*   hrs  availability_rules  weekday -> [is_open, open, close]            *)
(* and of the next fresh id of each collection (rid, bid, pid).            *)
(* Fields the handlers only store and display (names, notes, created_at)   *)
(* are left out.                                                           *)
(***************************************************************************)
VARIABLES requests, bookings, proposals, hours, nextRid, nextBid, nextPid, nops,
          pc, loc, call, ret

vars == << requests, bookings, proposals, hours, nextRid, nextBid, nextPid, nops,
           pc, loc, call, ret >>

db == [req |-> requests, bk |-> bookings, pr |-> proposals, hrs |-> hours,
       rid |-> nextRid, bid |-> nextBid, pid |-> nextPid]

EmptyCollection == [x \in {} |-> 0]

\* insert_one: the document gets the collection's next fresh id
Insert(coll, id, doc) == coll @@ (id :> doc)

\* delete_one / delete_many on a set of ids
Remove(coll, ids) == [x \in (DOMAIN coll) \ ids |-> coll[x]]

(***************************************************************************)
(* Matching logic                                                          *)
(***************************************************************************)
NoBest == [c |-> 0, s |-> None, e |-> None]

\* the candidates query without the level band
Candidates_AnyLevel(D, r_id) ==
    LET r == D.req[r_id]
    IN  {c \in DOMAIN D.req :
            /\ c # r_id
            /\ D.req[c].date = r.date
            /\ D.req[c].status = "open"}

\* the candidates query of try_autopair
Candidates(D, r_id) ==
    LET r == D.req[r_id]
    IN  {c \in DOMAIN D.req :
            /\ c # r_id
            /\ D.req[c].date = r.date
            /\ D.req[c].status = "open"
            /\ D.req[c].level >= r.level - LevelBand
            /\ D.req[c].level <= r.level + LevelBand}

\* a score that ignores the levels
Score_OverlapOnly(r, c, overlap_mins) == overlap_mins

\* score of candidate c for request r, given the raw overlap in minutes
Score(r, c, overlap_mins) == overlap_mins + LevelWeight * (-Abs(r.level - c.level))

\* the scoring loop of try_autopair over the candidates still to visit, in
\* store order (insertion order, that is ascending id)
RECURSIVE ScoreLoop(_, _, _, _, _)
ScoreLoop(D, r, cands, best, best_score) ==
    IF cands = {} THEN best
    ELSE LET cid == MinOf(cands)
             c == D.req[cid]
             rest == cands \ {cid}
             ov == minutes_overlap(parse_hhmm(r.start), parse_hhmm(r.end),
                                   parse_hhmm(c.start), parse_hhmm(c.end))
             cl == clamp_to_hours(D.hrs, r.date, ov.start, ov.end)
             score == Score(r, c, ov.mins)
         IN  IF ov.mins <= 0 THEN ScoreLoop(D, r, rest, best, best_score)
             ELSE IF ~cl.is_open \/ cl.s = None
                  THEN ScoreLoop(D, r, rest, best, best_score)
             ELSE IF score > best_score
                  THEN ScoreLoop(D, r, rest, [c |-> cid, s |-> cl.s, e |-> cl.e], score)
             ELSE ScoreLoop(D, r, rest, best, best_score)

BestCandidate(D, r_id) ==
    ScoreLoop(D, D.req[r_id], Candidates(D, r_id), NoBest, Sentinel)

\* the inner loop taking the last free court
FirstFreeCourt_Highest(bk, date_str, s_start, s_end) ==
    LET free == {court_id \in Courts : court_is_free(bk, date_str, court_id, s_start, s_end)}
    IN  IF free = {} THEN 0 ELSE CHOOSE x \in free : \A y \in free : x >= y

\* the inner loop over the courts in ascending court_id: the first free court, or 0
FirstFreeCourt(bk, date_str, s_start, s_end) ==
    LET free == {court_id \in Courts : court_is_free(bk, date_str, court_id, s_start, s_end)}
    IN  IF free = {} THEN 0 ELSE MinOf(free)

NoSlot == [court_id |-> 0, s_start |-> None, s_end |-> None]

\* the slot loop that takes the first slot on court 1 without asking court_is_free
FindSlot_Unchecked(bk, date_str, slots, i) ==
    IF i > Len(slots) THEN NoSlot
    ELSE [court_id |-> 1, s_start |-> slots[i][1], s_end |-> slots[i][2]]

\* the outer loop over the slots from index i on: the first slot with a free court
RECURSIVE FindSlot(_, _, _, _)
FindSlot(bk, date_str, slots, i) ==
    IF i > Len(slots) THEN NoSlot
    ELSE LET court_id == FirstFreeCourt(bk, date_str, slots[i][1], slots[i][2])
         IN  IF court_id # 0
             THEN [court_id |-> court_id, s_start |-> slots[i][1], s_end |-> slots[i][2]]
             ELSE FindSlot(bk, date_str, slots, i + 1)

\* the booking document of try_autopair, inserted as confirmed
TentativeBooking_Confirmed(r, f) ==
    [date |-> r.date, court_id |-> f.court_id, start |-> strftime(f.s_start),
     end |-> strftime(f.s_end), status |-> "confirmed"]

\* the tentative booking document try_autopair inserts
TentativeBooking(r, f) ==
    [date |-> r.date, court_id |-> f.court_id, start |-> strftime(f.s_start),
     end |-> strftime(f.s_end), status |-> "tentative"]

\* the proposal document try_autopair inserts
\* r, c are the request documents read at the start of the call
ProposalDoc(r_id, r, c_id, c, f, booking_id) ==
    [request_a_id |-> r_id, request_b_id |-> c_id, date |-> r.date,
     slot_start |-> strftime(f.s_start), slot_end |-> strftime(f.s_end),
     court_id |-> f.court_id, status |-> "pending_admin",
     level_a |-> r.level, level_b |-> c.level,
     booking_id |-> booking_id]

\* the guard of try_autopair without the status test
IsOpenRequest_AnyStatus(D, request_id) == request_id \in DOMAIN D.req

\* the guard of try_autopair: the request exists and is open
IsOpenRequest(D, request_id) ==
    /\ request_id \in DOMAIN D.req
    /\ D.req[request_id].status = "open"

try_autopair(D, new_request_id) ==
    IF ~IsOpenRequest(D, new_request_id) THEN D
    ELSE LET r == D.req[new_request_id]
             best == BestCandidate(D, new_request_id)
             slots == discrete_slots(best.s, best.e, r.duration, StepMin)
             f == FindSlot(D.bk, r.date, slots, 1)
         IN  IF best = NoBest THEN D
             ELSE IF f = NoSlot THEN D
             ELSE [D EXCEPT
                     !.bk = Insert(D.bk, D.bid, TentativeBooking(r, f)),
                     !.bid = D.bid + 1,
                     !.pr = Insert(D.pr, D.pid,
                                   ProposalDoc(new_request_id, r, best.c,
                                               D.req[best.c], f, D.bid)),
                     !.pid = D.pid + 1]

(***************************************************************************)
(* Routes.  Each handler is a function from the database before the        *)
(* request to the database after it; the form fields start, end are        *)
(* "HH:MM" strings.                                                        *)
(***************************************************************************)
\* update_one({"_id": id}, {"$set": {"status": st}}): no effect on a missing id
SetStatus(coll, id, st) ==
    IF id \in DOMAIN coll THEN [coll EXCEPT ![id].status = st] ELSE coll

\* InsertRequest that stores the window as submitted
InsertRequest_Unclamped(D, level, date_str, start, end, duration) ==
    LET cl == clamp_to_hours(D.hrs, date_str, parse_hhmm(start), parse_hhmm(end))
        req_doc == [level |-> level, date |-> date_str, start |-> start,
                    end |-> end, duration |-> duration, status |-> "open"]
    IN  IF parse_hhmm(end) <= parse_hhmm(start) THEN D
        ELSE IF ~cl.is_open THEN D
        ELSE IF cl.s = None THEN D
        ELSE [D EXCEPT !.req = Insert(D.req, D.rid, req_doc), !.rid = D.rid + 1]

\* new_request up to and including the insert of the play request; D itself
\* when the form is refused
InsertRequest(D, level, date_str, start, end, duration) ==
    LET cl == clamp_to_hours(D.hrs, date_str, parse_hhmm(start), parse_hhmm(end))
        req_doc == [level |-> level, date |-> date_str, start |-> strftime(cl.s),
                    end |-> strftime(cl.e), duration |-> duration, status |-> "open"]
    IN  IF parse_hhmm(end) <= parse_hhmm(start) THEN D
        ELSE IF ~cl.is_open THEN D
        ELSE IF cl.s = None THEN D
        ELSE [D EXCEPT !.req = Insert(D.req, D.rid, req_doc), !.rid = D.rid + 1]

new_request(D, level, date_str, start, end, duration) ==
    LET inserted == InsertRequest(D, level, date_str, start, end, duration)
    IN  IF inserted = D THEN D ELSE try_autopair(inserted, D.rid)

\* approve_proposal that marks only request A matched
approve_proposal_OnlyA(D, proposal_id) ==
    IF proposal_id \notin DOMAIN D.pr THEN D
    ELSE IF D.pr[proposal_id].status # "pending_admin" THEN D
    ELSE LET p == D.pr[proposal_id]
         IN  [D EXCEPT
                 !.bk = SetStatus(D.bk, p.booking_id, "confirmed"),
                 !.req = SetStatus(D.req, p.request_a_id, "matched"),
                 !.pr = SetStatus(D.pr, proposal_id, "approved")]

approve_proposal(D, proposal_id) ==
    IF proposal_id \notin DOMAIN D.pr THEN D
    ELSE IF D.pr[proposal_id].status # "pending_admin" THEN D
    ELSE LET p == D.pr[proposal_id]
         IN  [D EXCEPT
                 !.bk = SetStatus(D.bk, p.booking_id, "confirmed"),
                 !.req = SetStatus(SetStatus(D.req, p.request_a_id, "matched"),
                                   p.request_b_id, "matched"),
                 !.pr = SetStatus(D.pr, proposal_id, "approved")]

\* reject_proposal without the test of the proposal's status
reject_proposal_Unguarded(D, proposal_id) ==
    IF proposal_id \notin DOMAIN D.pr THEN D
    ELSE LET p == D.pr[proposal_id]
         IN  [D EXCEPT
                 !.bk = SetStatus(D.bk, p.booking_id, "cancelled"),
                 !.pr = SetStatus(D.pr, proposal_id, "rejected")]

reject_proposal(D, proposal_id) ==
    IF proposal_id \notin DOMAIN D.pr THEN D
    ELSE IF D.pr[proposal_id].status # "pending_admin" THEN D
    ELSE LET p == D.pr[proposal_id]
         IN  [D EXCEPT
                 !.bk = SetStatus(D.bk, p.booking_id, "cancelled"),
                 !.pr = SetStatus(D.pr, proposal_id, "rejected")]

edit_request(D, request_id, level, date_str, start, end, duration) ==
    IF request_id \notin DOMAIN D.req THEN D
    ELSE IF D.req[request_id].status # "open" THEN D
    ELSE IF parse_hhmm(end) <= parse_hhmm(start) THEN D
    ELSE LET updated == [D EXCEPT !.req[request_id] =
                            [level |-> level, date |-> date_str, start |-> start,
                             end |-> end, duration |-> duration,
                             status |-> D.req[request_id].status]]
         IN  try_autopair(updated, request_id)

\* delete_request that leaves the pending proposals of the request in the store
delete_request_KeepProposals(D, request_id) ==
    IF request_id \notin DOMAIN D.req THEN D
    ELSE IF D.req[request_id].status # "open" THEN D
    ELSE [D EXCEPT !.req = Remove(D.req, {request_id})]

\* delete_request without the test of the request's status
delete_request_AnyStatus(D, request_id) ==
    IF request_id \notin DOMAIN D.req THEN D
    ELSE LET pending == {p \in DOMAIN D.pr :
                            /\ (D.pr[p].request_a_id = request_id
                                \/ D.pr[p].request_b_id = request_id)
                            /\ D.pr[p].status = "pending_admin"}
         IN  [D EXCEPT !.pr = Remove(D.pr, pending),
                       !.req = Remove(D.req, {request_id})]

delete_request(D, request_id) ==
    IF request_id \notin DOMAIN D.req THEN D
    ELSE IF D.req[request_id].status # "open" THEN D
    ELSE LET pending == {p \in DOMAIN D.pr :
                            /\ (D.pr[p].request_a_id = request_id
                                \/ D.pr[p].request_b_id = request_id)
                            /\ D.pr[p].status = "pending_admin"}
         IN  [D EXCEPT !.pr = Remove(D.pr, pending),
                       !.req = Remove(D.req, {request_id})]

\* create_manual_booking without the court_is_free test
create_manual_booking_Unchecked(D, date_str, start, end, court_id) ==
    LET cl == clamp_to_hours(D.hrs, date_str, parse_hhmm(start), parse_hhmm(end))
        doc == [date |-> date_str, court_id |-> court_id, start |-> strftime(cl.s),
                end |-> strftime(cl.e), status |-> "confirmed"]
    IN  IF parse_hhmm(end) <= parse_hhmm(start) THEN D
        ELSE IF ~cl.is_open THEN D
        ELSE IF cl.s = None THEN D
        ELSE [D EXCEPT !.bk = Insert(D.bk, D.bid, doc), !.bid = D.bid + 1]

create_manual_booking(D, date_str, start, end, court_id) ==
    LET cl == clamp_to_hours(D.hrs, date_str, parse_hhmm(start), parse_hhmm(end))
        doc == [date |-> date_str, court_id |-> court_id, start |-> strftime(cl.s),
                end |-> strftime(cl.e), status |-> "confirmed"]
    IN  IF parse_hhmm(end) <= parse_hhmm(start) THEN D
        ELSE IF ~cl.is_open THEN D
        ELSE IF cl.s = None THEN D
        ELSE IF ~court_is_free(D.bk, date_str, court_id, cl.s, cl.e) THEN D
        ELSE [D EXCEPT !.bk = Insert(D.bk, D.bid, doc), !.bid = D.bid + 1]

edit_booking(D, booking_id, date_str, start_s, end_s, court_id) ==
    LET cl == clamp_to_hours(D.hrs, date_str, parse_hhmm(start_s), parse_hhmm(end_s))
    IN  IF booking_id \notin DOMAIN D.bk THEN D
        ELSE IF parse_hhmm(end_s) <= parse_hhmm(start_s) THEN D
        ELSE IF ~cl.is_open THEN D
        ELSE IF cl.s = None THEN D
        ELSE IF ~court_is_free_excluding(D.bk, date_str, court_id, cl.s, cl.e, booking_id)
             THEN D
        ELSE [D EXCEPT !.bk[booking_id] =
                 [date |-> date_str, court_id |-> court_id, start |-> strftime(cl.s),
                  end |-> strftime(cl.e), status |-> D.bk[booking_id].status]]

change_booking_court(D, booking_id, new_court) ==
    IF booking_id \notin DOMAIN D.bk THEN D
    ELSE LET b == D.bk[booking_id]
         IN  IF new_court = b.court_id THEN D
             ELSE IF ~court_is_free(D.bk, b.date, new_court,
                                    parse_hhmm(b.start), parse_hhmm(b.end)) THEN D
             ELSE [D EXCEPT !.bk[booking_id].court_id = new_court]

\* update_one({"booking_id": id}, ...) updates the first proposal of the booking
delete_booking(D, booking_id) ==
    IF booking_id \notin DOMAIN D.bk THEN D
    ELSE LET of_booking == {p \in DOMAIN D.pr : D.pr[p].booking_id = booking_id}
         IN  [D EXCEPT
                 !.pr = IF of_booking = {} THEN D.pr
                        ELSE SetStatus(D.pr, MinOf(of_booking), "cancelled"),
                 !.bk = Remove(D.bk, {booking_id})]

\* form: for each weekday the rule the admin submitted; upsert of all seven
update_hours(D, form) ==
    [D EXCEPT !.hrs = [wd \in Weekdays |-> form[wd]]]

(***************************************************************************)
(* The specification in which every request runs to completion.            *)
(***************************************************************************)
\* Handlers whose store operations interleave are run by the workers Procs;
\* pc is the store operation a worker is about to do and loc the handler's
\* local variables.  In this specification no worker ever leaves "idle".
Procs == 1 .. NumProcs

NoDoc == [level |-> 0, date |-> "", start |-> << >>, end |-> << >>, duration |-> 0,
          status |-> ""]

IdleLoc == [r_id |-> 0, r |-> NoDoc, c_id |-> 0, c |-> NoDoc, date |-> "",
            slots |-> << >>, i |-> 0, court_id |-> 0, booking_id |-> 0]

\* call is the last call of a utility function, ret the value it returned
NoCall == [fn |-> "", args |-> << >>]

Init ==
    /\ requests = EmptyCollection
    /\ bookings = EmptyCollection
    /\ proposals = EmptyCollection
    /\ hours = [wd \in Weekdays |-> DefaultRule(wd)]
    /\ nextRid = 1
    /\ nextBid = 1
    /\ nextPid = 1
    /\ nops = 0
    /\ pc = [p \in Procs |-> "idle"]
    /\ loc = [p \in Procs |-> IdleLoc]
    /\ call = NoCall
    /\ ret = << >>

\* the database after the handler replaces the database before it
Commit(D) ==
    /\ requests' = D.req
    /\ bookings' = D.bk
    /\ proposals' = D.pr
    /\ hours' = D.hrs
    /\ nextRid' = D.rid
    /\ nextBid' = D.bid
    /\ nextPid' = D.pid
    /\ UNCHANGED << pc, loc, call, ret >>

\* the hours form of an admin who sets the rules of Saturday and Sunday
HoursForm(sat, sun) ==
    [wd \in Weekdays |-> IF wd = 5 THEN sat ELSE IF wd = 6 THEN sun ELSE DefaultRule(wd)]

NewRequest ==
    /\ nops < MaxOps
    /\ nextRid <= MaxRequests
    /\ \E level \in Levels, date_str \in Dates, f \in RequestForms :
          Commit(new_request(db, level, date_str, strftime(f[1]), strftime(f[2]), f[3]))
    /\ nops' = nops + 1

EditRequest ==
    /\ nops < MaxOps
    /\ \E request_id \in 1 .. nextRid, level \in Levels, date_str \in Dates,
          f \in EditForms :
          Commit(edit_request(db, request_id, level, date_str,
                              strftime(f[1]), strftime(f[2]), f[3]))
    /\ nops' = nops + 1

DeleteRequest ==
    /\ nops < MaxOps
    /\ \E request_id \in 1 .. nextRid : Commit(delete_request(db, request_id))
    /\ nops' = nops + 1

ApproveProposal ==
    /\ nops < MaxOps
    /\ \E proposal_id \in 1 .. nextPid : Commit(approve_proposal(db, proposal_id))
    /\ nops' = nops + 1

RejectProposal ==
    /\ nops < MaxOps
    /\ \E proposal_id \in 1 .. nextPid : Commit(reject_proposal(db, proposal_id))
    /\ nops' = nops + 1

CreateManualBooking ==
    /\ nops < MaxOps
    /\ \E date_str \in Dates, w \in BookingWindows, court_id \in FormCourts :
          Commit(create_manual_booking(db, date_str, strftime(w[1]), strftime(w[2]),
                                       court_id))
    /\ nops' = nops + 1

EditBooking ==
    /\ nops < MaxOps
    /\ \E booking_id \in 1 .. nextBid, date_str \in Dates, w \in BookingWindows,
          court_id \in FormCourts :
          Commit(edit_booking(db, booking_id, date_str, strftime(w[1]),
                              strftime(w[2]), court_id))
    /\ nops' = nops + 1

ChangeBookingCourt ==
    /\ nops < MaxOps
    /\ \E booking_id \in 1 .. nextBid, new_court \in FormCourts :
          Commit(change_booking_court(db, booking_id, new_court))
    /\ nops' = nops + 1

DeleteBooking ==
    /\ nops < MaxOps
    /\ \E booking_id \in 1 .. nextBid : Commit(delete_booking(db, booking_id))
    /\ nops' = nops + 1

UpdateHours ==
    /\ nops < MaxOps
    /\ \E h \in HoursChoices : Commit(update_hours(db, HoursForm(h[1], h[2])))
    /\ nops' = nops + 1

Next ==
    \/ NewRequest
    \/ EditRequest
    \/ DeleteRequest
    \/ ApproveProposal
    \/ RejectProposal
    \/ CreateManualBooking
    \/ EditBooking
    \/ ChangeBookingCourt
    \/ DeleteBooking
    \/ UpdateHours

Spec == Init /\ [][Next]_vars

(***************************************************************************)
(* The specification in which the store operations of concurrent handlers  *)
(* interleave.  A worker runs new_request (the insert of the request, then *)
(* try_autopair) or create_manual_booking, one store operation per step:   *)
(*   ta_match    find_one of the request, the candidates query, the scoring*)
(*   ta_check    one court_is_free query of the slot and court loops       *)
(*   ta_book     insert_one of the tentative booking                       *)
(*   ta_propose  insert_one of the proposal                                *)
(*   mb_insert   insert_one of the manual booking, after its court_is_free *)
(***************************************************************************)
Goto(p, label, locals) ==
    /\ pc' = [pc EXCEPT ![p] = label]
    /\ loc' = [loc EXCEPT ![p] = locals]
    /\ UNCHANGED << call, ret >>

StoreUnchanged == UNCHANGED << requests, bookings, proposals, hours, nextRid, nextBid, nextPid >>

\* new_request: validation and insert_one of the play request
RaceNewRequest(p) ==
    /\ pc[p] = "idle"
    /\ nops < MaxRaceOps
    /\ nops' = nops + 1
    /\ \E level \in RaceLevels, date_str \in Dates, f \in RaceForms :
          LET D1 == InsertRequest(db, level, date_str, strftime(f[1]), strftime(f[2]), f[3])
          IN  /\ requests' = D1.req
              /\ nextRid' = D1.rid
              /\ IF D1 = db THEN Goto(p, "idle", IdleLoc)
                 ELSE Goto(p, "ta_match", [IdleLoc EXCEPT !.r_id = nextRid])
    /\ UNCHANGED << bookings, proposals, hours, nextBid, nextPid >>

\* try_autopair from its first line to the start of the slot loop
TaMatch(p) ==
    /\ pc[p] = "ta_match"
    /\ LET r_id == loc[p].r_id
           best == BestCandidate(db, r_id)
           slots == discrete_slots(best.s, best.e, requests[r_id].duration, StepMin)
       IN  IF ~IsOpenRequest(db, r_id) THEN Goto(p, "idle", IdleLoc)
           ELSE IF best = NoBest THEN Goto(p, "idle", IdleLoc)
           ELSE IF slots = << >> THEN Goto(p, "idle", IdleLoc)
           ELSE Goto(p, "ta_check",
                     [IdleLoc EXCEPT !.r_id = r_id, !.r = requests[r_id],
                                     !.c_id = best.c, !.c = requests[best.c],
                                     !.date = requests[r_id].date,
                                     !.slots = slots, !.i = 1, !.court_id = 1])
    /\ StoreUnchanged
    /\ UNCHANGED nops

\* one court_is_free query: slot loc.i on court loc.court_id
TaCheck(p) ==
    /\ pc[p] = "ta_check"
    /\ LET l == loc[p]
           slot == l.slots[l.i]
       IN  IF court_is_free(bookings, l.date, l.court_id, slot[1], slot[2])
           THEN Goto(p, "ta_book", l)
           ELSE IF l.court_id < NumCourts
                THEN Goto(p, "ta_check", [l EXCEPT !.court_id = l.court_id + 1])
           ELSE IF l.i < Len(l.slots)
                THEN Goto(p, "ta_check", [l EXCEPT !.i = l.i + 1, !.court_id = 1])
           ELSE Goto(p, "idle", IdleLoc)
    /\ StoreUnchanged
    /\ UNCHANGED nops

\* the slot and court a worker has found free
Found(l) == [court_id |-> l.court_id, s_start |-> l.slots[l.i][1], s_end |-> l.slots[l.i][2]]

TaBook(p) ==
    /\ pc[p] = "ta_book"
    /\ bookings' = Insert(bookings, nextBid, TentativeBooking(loc[p].r, Found(loc[p])))
    /\ nextBid' = nextBid + 1
    /\ Goto(p, "ta_propose", [loc[p] EXCEPT !.booking_id = nextBid])
    /\ UNCHANGED << requests, proposals, hours, nextRid, nextPid, nops >>

TaPropose(p) ==
    /\ pc[p] = "ta_propose"
    /\ LET l == loc[p]
       IN  proposals' = Insert(proposals, nextPid,
                               ProposalDoc(l.r_id, l.r, l.c_id, l.c, Found(l), l.booking_id))
    /\ nextPid' = nextPid + 1
    /\ Goto(p, "idle", IdleLoc)
    /\ UNCHANGED << requests, bookings, hours, nextRid, nextBid, nops >>

\* create_manual_booking up to and including its court_is_free query
RaceManualBooking(p) ==
    /\ pc[p] = "idle"
    /\ nops < MaxRaceOps
    /\ nops' = nops + 1
    /\ \E date_str \in Dates, w \in BookingWindows, court_id \in FormCourts :
          LET start == strftime(w[1])
              end == strftime(w[2])
              cl == clamp_to_hours(hours, date_str, parse_hhmm(start), parse_hhmm(end))
          IN  IF parse_hhmm(end) <= parse_hhmm(start) THEN Goto(p, "idle", IdleLoc)
              ELSE IF ~cl.is_open THEN Goto(p, "idle", IdleLoc)
              ELSE IF cl.s = None THEN Goto(p, "idle", IdleLoc)
              ELSE IF ~court_is_free(bookings, date_str, court_id, cl.s, cl.e)
                   THEN Goto(p, "idle", IdleLoc)
              ELSE Goto(p, "mb_insert",
                        [IdleLoc EXCEPT !.date = date_str, !.court_id = court_id,
                                        !.slots = << << cl.s, cl.e >> >>, !.i = 1])
    /\ StoreUnchanged

MbInsert(p) ==
    /\ pc[p] = "mb_insert"
    /\ LET l == loc[p]
       IN  bookings' = Insert(bookings, nextBid,
                              [date |-> l.date, court_id |-> l.court_id,
                               start |-> strftime(l.slots[1][1]),
                               end |-> strftime(l.slots[1][2]), status |-> "confirmed"])
    /\ nextBid' = nextBid + 1
    /\ Goto(p, "idle", IdleLoc)
    /\ UNCHANGED << requests, proposals, hours, nextRid, nextPid, nops >>

RaceNext ==
    \E p \in Procs :
        \/ RaceNewRequest(p)
        \/ TaMatch(p)
        \/ TaCheck(p)
        \/ TaBook(p)
        \/ TaPropose(p)
        \/ RaceManualBooking(p)
        \/ MbInsert(p)

SpecRace == Init /\ [][RaceNext]_vars

(***************************************************************************)
(* The specification of the matching engine on booked courts.  An admin    *)
(* has block-booked courts of the Saturday with create_manual_booking      *)
(* before the first play request comes in; then requests are submitted and *)
(* edited and the hours changed, every handler running to completion.      *)
(***************************************************************************)
\* a confirmed booking of create_manual_booking on the Saturday
ManualBooking(court_id, start, end) ==
    [date |-> DateSat, court_id |-> court_id, start |-> strftime(start),
     end |-> strftime(end), status |-> "confirmed"]

\* the bookings the admin has made: none; courts 1 to 3 until 10:30 and court
\* 4 until 10:15; all four courts from 10:00 to 11:30
EngineBookings ==
    { EmptyCollection,
      [b \in Courts |-> ManualBooking(b, 600, IF b = NumCourts THEN 615 ELSE 630)],
      [b \in Courts |-> ManualBooking(b, 600, 690)] }

InitEngine ==
    /\ requests = EmptyCollection
    /\ bookings \in EngineBookings
    /\ proposals = EmptyCollection
    /\ hours = [wd \in Weekdays |-> DefaultRule(wd)]
    /\ nextRid = 1
    /\ nextBid = Cardinality(DOMAIN bookings) + 1
    /\ nextPid = 1
    /\ nops = 0
    /\ pc = [p \in Procs |-> "idle"]
    /\ loc = [p \in Procs |-> IdleLoc]
    /\ call = NoCall
    /\ ret = << >>

EngineNewRequest ==
    /\ nops < MaxEngineOps
    /\ \E date_str \in Dates, f \in EngineForms :
          Commit(new_request(db, f[1], date_str, strftime(f[2]), strftime(f[3]), f[4]))
    /\ nops' = nops + 1

EngineEditRequest ==
    /\ nops < MaxEngineOps
    /\ \E request_id \in DOMAIN requests, f \in EditForms :
          Commit(edit_request(db, request_id, requests[request_id].level, DateSat,
                              strftime(f[1]), strftime(f[2]), f[3]))
    /\ nops' = nops + 1

EngineUpdateHours ==
    /\ nops < MaxEngineOps
    /\ \E h \in HoursChoices : Commit(update_hours(db, HoursForm(h[1], h[2])))
    /\ nops' = nops + 1

EngineNext ==
    \/ EngineNewRequest
    \/ EngineEditRequest
    \/ EngineUpdateHours

SpecEngine == InitEngine /\ [][EngineNext]_vars

(***************************************************************************)
(* The specification of the utilities.  An admin sets the hours of the     *)
(* weekend, then one utility function is called on times of day taken from *)
(* a grid of quarter hours around the opening time, midnight and 23:45.    *)
(***************************************************************************)
UtilTimes == {0, 1425} \cup {585 + 15 * k : k \in 0 .. NumTimes - 1}

\* duration_min and step_min given to discrete_slots
UtilDurations == {15, 45, 60}
UtilSteps == {15, 30}

\* rules the admin sets: open 10:00-10:15, open 10:30 with close 10:00 (the
\* form does not compare them), closed
UtilRules == {OpenRule(600, 615), OpenRule(630, 600), ClosedRule}

UtilUnchanged ==
    UNCHANGED << requests, bookings, proposals, hours, nextRid, nextBid, nextPid, nops,
                 pc, loc >>

UtilUpdateHours ==
    /\ call = NoCall
    /\ \E sat \in UtilRules, sun \in UtilRules : Commit(update_hours(db, HoursForm(sat, sun)))
    /\ UNCHANGED nops

CallMinutesOverlap ==
    /\ call = NoCall
    /\ \E a_start \in UtilTimes, a_end \in UtilTimes, b_start \in UtilTimes,
          b_end \in UtilTimes :
          /\ call' = [fn |-> "minutes_overlap", args |-> << a_start, a_end, b_start, b_end >>]
          /\ ret' = minutes_overlap(a_start, a_end, b_start, b_end)
    /\ UtilUnchanged

CallDiscreteSlots ==
    /\ call = NoCall
    /\ \E start \in UtilTimes, end \in UtilTimes, duration_min \in UtilDurations,
          step_min \in UtilSteps :
          /\ call' = [fn |-> "discrete_slots", args |-> << start, end, duration_min, step_min >>]
          /\ ret' = discrete_slots(start, end, duration_min, step_min)
    /\ UtilUnchanged

CallClampToHours ==
    /\ call = NoCall
    /\ \E date_str \in Dates, start \in UtilTimes, end \in UtilTimes :
          /\ call' = [fn |-> "clamp_to_hours", args |-> << date_str, start, end >>]
          /\ ret' = clamp_to_hours(hours, date_str, start, end)
    /\ UtilUnchanged

UtilNext ==
    \/ UtilUpdateHours
    \/ CallMinutesOverlap
    \/ CallDiscreteSlots
    \/ CallClampToHours

SpecUtil == Init /\ [][UtilNext]_vars

(***************************************************************************)
(* The specification in which the store operations of approve_proposal and *)
(* reject_proposal interleave.  Two play requests are filed and paired,    *)
(* each new_request running to completion; then the workers run the admin's*)
(* approve and reject requests, one store operation per step:              *)
(*   ap_booking    update_one of the booking to confirmed                  *)
(*   ap_request_a  update_one of request A to matched                      *)
(*   ap_request_b  update_one of request B to matched                      *)
(*   ap_proposal   update_one of the proposal to approved                  *)
(*   rj_booking    update_one of the booking to cancelled                  *)
(*   rj_proposal   update_one of the proposal to rejected                  *)
(* loc holds p, the proposal document find_one returned.                   *)
(***************************************************************************)
\* a play request of level 2 for the Saturday, 09:30-11:00 for 60 minutes, filed
\* while no proposal exists
AdminNewRequest ==
    /\ proposals = EmptyCollection
    /\ \A w \in Procs : pc[w] = "idle"
    /\ Commit(new_request(db, 2, DateSat, strftime(570), strftime(660), 60))
    /\ UNCHANGED nops

\* approve_proposal: find_one and the status guard
AdminApprove(w) ==
    /\ pc[w] = "idle"
    /\ nops < MaxAdminOps
    /\ nops' = nops + 1
    /\ \E proposal_id \in DOMAIN proposals :
          IF proposals[proposal_id].status # "pending_admin" THEN Goto(w, "idle", IdleLoc)
          ELSE Goto(w, "ap_booking", [_id |-> proposal_id, p |-> proposals[proposal_id]])
    /\ StoreUnchanged

ApBooking(w) ==
    /\ pc[w] = "ap_booking"
    /\ bookings' = SetStatus(bookings, loc[w].p.booking_id, "confirmed")
    /\ Goto(w, "ap_request_a", loc[w])
    /\ UNCHANGED << requests, proposals, hours, nextRid, nextBid, nextPid, nops >>

ApRequestA(w) ==
    /\ pc[w] = "ap_request_a"
    /\ requests' = SetStatus(requests, loc[w].p.request_a_id, "matched")
    /\ Goto(w, "ap_request_b", loc[w])
    /\ UNCHANGED << bookings, proposals, hours, nextRid, nextBid, nextPid, nops >>

ApRequestB(w) ==
    /\ pc[w] = "ap_request_b"
    /\ requests' = SetStatus(requests, loc[w].p.request_b_id, "matched")
    /\ Goto(w, "ap_proposal", loc[w])
    /\ UNCHANGED << bookings, proposals, hours, nextRid, nextBid, nextPid, nops >>

ApProposal(w) ==
    /\ pc[w] = "ap_proposal"
    /\ proposals' = SetStatus(proposals, loc[w]._id, "approved")
    /\ Goto(w, "idle", IdleLoc)
    /\ UNCHANGED << requests, bookings, hours, nextRid, nextBid, nextPid, nops >>

\* reject_proposal: find_one and the status guard
AdminReject(w) ==
    /\ pc[w] = "idle"
    /\ nops < MaxAdminOps
    /\ nops' = nops + 1
    /\ \E proposal_id \in DOMAIN proposals :
          IF proposals[proposal_id].status # "pending_admin" THEN Goto(w, "idle", IdleLoc)
          ELSE Goto(w, "rj_booking", [_id |-> proposal_id, p |-> proposals[proposal_id]])
    /\ StoreUnchanged

RjBooking(w) ==
    /\ pc[w] = "rj_booking"
    /\ bookings' = SetStatus(bookings, loc[w].p.booking_id, "cancelled")
    /\ Goto(w, "rj_proposal", loc[w])
    /\ UNCHANGED << requests, proposals, hours, nextRid, nextBid, nextPid, nops >>

RjProposal(w) ==
    /\ pc[w] = "rj_proposal"
    /\ proposals' = SetStatus(proposals, loc[w]._id, "rejected")
    /\ Goto(w, "idle", IdleLoc)
    /\ UNCHANGED << requests, bookings, hours, nextRid, nextBid, nextPid, nops >>

AdminNext ==
    \/ AdminNewRequest
    \/ \E w \in Procs :
          \/ AdminApprove(w)
          \/ ApBooking(w)
          \/ ApRequestA(w)
          \/ ApRequestB(w)
          \/ ApProposal(w)
          \/ AdminReject(w)
          \/ RjBooking(w)
          \/ RjProposal(w)

SpecAdmin == Init /\ [][AdminNext]_vars

(***************************************************************************)
(* The specification of the court checks.  Bookings are made, edited,      *)
(* moved and cancelled on the Saturday, every handler running to           *)
(* completion; then one of the two court queries is made and its answer    *)
(* recorded in call and ret.                                               *)
(***************************************************************************)
\* (start, end) of the booking forms: 09:30-10:45, 10:45-11:30 and one with
\* end <= start
CourtWindows == {<<570, 645>>, <<645, 690>>, <<690, 630>>}

\* (slot_start, slot_end) the queries ask for: 10:00-10:45, 10:45-11:30, 09:00-10:00
QuerySlots == {<<600, 645>>, <<645, 690>>, <<540, 600>>}

CourtsManualBooking ==
    /\ call = NoCall
    /\ nops < MaxCourtOps
    /\ \E date_str \in Dates, w \in CourtWindows, court_id \in FormCourts :
          Commit(create_manual_booking(db, date_str, strftime(w[1]), strftime(w[2]),
                                       court_id))
    /\ nops' = nops + 1

\* a play request of level 2 for the Saturday, 09:30-11:00 for 60 minutes
CourtsNewRequest ==
    /\ call = NoCall
    /\ nops < MaxCourtOps
    /\ Commit(new_request(db, 2, DateSat, strftime(570), strftime(660), 60))
    /\ nops' = nops + 1

CourtsRejectProposal ==
    /\ call = NoCall
    /\ nops < MaxCourtOps
    /\ \E proposal_id \in DOMAIN proposals : Commit(reject_proposal(db, proposal_id))
    /\ nops' = nops + 1

CourtsEditBooking ==
    /\ call = NoCall
    /\ nops < MaxCourtOps
    /\ \E booking_id \in DOMAIN bookings, w \in CourtWindows, court_id \in FormCourts :
          Commit(edit_booking(db, booking_id, DateSat, strftime(w[1]), strftime(w[2]),
                              court_id))
    /\ nops' = nops + 1

CourtsChangeCourt ==
    /\ call = NoCall
    /\ nops < MaxCourtOps
    /\ \E booking_id \in DOMAIN bookings, new_court \in FormCourts :
          Commit(change_booking_court(db, booking_id, new_court))
    /\ nops' = nops + 1

CallCourtIsFree ==
    /\ call = NoCall
    /\ \E date_str \in Dates, court_id \in FormCourts, slot \in QuerySlots :
          /\ call' = [fn |-> "court_is_free",
                      args |-> << date_str, court_id, slot[1], slot[2] >>]
          /\ ret' = court_is_free(bookings, date_str, court_id, slot[1], slot[2])
    /\ UtilUnchanged

\* exclude_id is the id of a booking or the next id, which no booking has
CallCourtIsFreeExcluding ==
    /\ call = NoCall
    /\ \E date_str \in Dates, court_id \in FormCourts, slot \in QuerySlots,
          exclude_id \in 1 .. nextBid :
          /\ call' = [fn |-> "court_is_free_excluding",
                      args |-> << date_str, court_id, slot[1], slot[2], exclude_id >>]
          /\ ret' = court_is_free_excluding(bookings, date_str, court_id, slot[1], slot[2],
                                            exclude_id)
    /\ UtilUnchanged

CourtsNext ==
    \/ CourtsManualBooking
    \/ CourtsNewRequest
    \/ CourtsRejectProposal
    \/ CourtsEditBooking
    \/ CourtsChangeCourt
    \/ CallCourtIsFree
    \/ CallCourtIsFreeExcluding

SpecCourts == Init /\ [][CourtsNext]_vars

(***************************************************************************)
(* Properties of the run-to-completion specification.                      *)
(***************************************************************************)
Start(b) == parse_hhmm(b.start)
End(b) == parse_hhmm(b.end)

\* the half-open intervals [start, end) of two bookings share a minute
Overlapping(b1, b2) == Max2(Start(b1), Start(b2)) < Min2(End(b1), End(b2))

IsActive(b) == b.status \in ActiveStatuses

\* b1, b2 are different active bookings of the same date and court that overlap
Clash(bk, b1, b2) ==
    /\ b1 # b2
    /\ bk[b1].date = bk[b2].date
    /\ bk[b1].court_id = bk[b2].court_id
    /\ IsActive(bk[b1]) /\ IsActive(bk[b2])
    /\ Overlapping(bk[b1], bk[b2])

DoubleBooked(bk) == \E b1 \in DOMAIN bk, b2 \in DOMAIN bk : Clash(bk, b1, b2)

\* C1: when every request runs to completion, no two tentative or confirmed
\* bookings of the same date and court have overlapping [start, end) intervals.
C1_NoDoubleBooking == ~DoubleBooked(bookings)

\* a tentative booking was placed on another court than an active booking of
\* the same date whose interval overlaps it
C1_Witness ==
    \E b1 \in DOMAIN bookings, b2 \in DOMAIN bookings :
        /\ b1 # b2
        /\ bookings[b1].status = "tentative" /\ IsActive(bookings[b2])
        /\ bookings[b1].date = bookings[b2].date
        /\ bookings[b1].court_id # bookings[b2].court_id
        /\ Overlapping(bookings[b1], bookings[b2])

\* C3: every booking in the store lies inside the open hours now configured
\* for the weekday of its date, and no booking is on a weekday configured closed.
C3_BookingsWithinHours ==
    \A b \in DOMAIN bookings :
        LET h == get_club_hours(hours, bookings[b].date)
        IN  /\ h.is_open
            /\ h.open <= Start(bookings[b])
            /\ End(bookings[b]) <= h.close

PendingOf(pr, booking_id) ==
    {p \in DOMAIN pr : pr[p].booking_id = booking_id /\ pr[p].status = "pending_admin"}

\* C4: every tentative booking is referenced by exactly one pending proposal.
C4_OnePendingPerTentative ==
    \A b \in DOMAIN bookings :
        bookings[b].status = "tentative" => Cardinality(PendingOf(proposals, b)) = 1

PendingIds(D) == {p \in DOMAIN D.pr : D.pr[p].status = "pending_admin"}

\* C6: rejecting a pending proposal cancels its booking, marks the proposal
\* rejected, leaves both referenced requests open, and frees the court for the
\* booking's interval, so that either request passes the guard of try_autopair.
C6_RejectReleases ==
    \A pid \in PendingIds(db) :
        LET p == proposals[pid]
            D2 == reject_proposal(db, pid)
        IN  /\ p.booking_id \in DOMAIN D2.bk
            /\ D2.bk[p.booking_id].status = "cancelled"
            /\ D2.pr[pid].status = "rejected"
            /\ IsOpenRequest(D2, p.request_a_id)
            /\ IsOpenRequest(D2, p.request_b_id)
            /\ court_is_free(D2.bk, D2.bk[p.booking_id].date, D2.bk[p.booking_id].court_id,
                             Start(D2.bk[p.booking_id]), End(D2.bk[p.booking_id]))

\* proposal pid goes from pending_admin to approved in this step
Approved(pid) ==
    /\ pid \in DOMAIN proposals /\ pid \in DOMAIN proposals'
    /\ proposals[pid].status = "pending_admin"
    /\ proposals'[pid].status = "approved"

\* request rid is matched after this step and was not before it
BecomesMatched(rid) ==
    /\ rid \in DOMAIN requests' /\ requests'[rid].status = "matched"
    /\ (rid \in DOMAIN requests => requests[rid].status # "matched")

\* C7: a step that approves a pending proposal turns its booking from tentative
\* to confirmed and leaves both referenced requests matched; and a request
\* becomes matched only in a step that approves a proposal referencing it.
C7_ApproveStep ==
    /\ \A pid \in DOMAIN proposals :
        Approved(pid) =>
            LET p == proposals[pid]
            IN  /\ p.booking_id \in DOMAIN bookings
                /\ bookings[p.booking_id].status = "tentative"
                /\ p.booking_id \in DOMAIN bookings'
                /\ bookings'[p.booking_id].status = "confirmed"
                /\ p.request_a_id \in DOMAIN requests'
                /\ requests'[p.request_a_id].status = "matched"
                /\ p.request_b_id \in DOMAIN requests'
                /\ requests'[p.request_b_id].status = "matched"
    /\ \A rid \in DOMAIN requests' :
        BecomesMatched(rid) =>
            \E pid \in DOMAIN proposals :
                /\ Approved(pid)
                /\ rid \in {proposals[pid].request_a_id, proposals[pid].request_b_id}

\* C7: every step of the specification is as C7_ApproveStep says: approving
\* confirms the booking and matches both requests, and nothing else matches one.
C7_Approve == [][C7_ApproveStep]_vars

\* a proposal is approved, its booking confirmed and both its requests matched
C7_Witness ==
    \E pid \in DOMAIN proposals :
        /\ proposals[pid].status = "approved"
        /\ proposals[pid].booking_id \in DOMAIN bookings
        /\ bookings[proposals[pid].booking_id].status = "confirmed"
        /\ requests[proposals[pid].request_a_id].status = "matched"
        /\ requests[proposals[pid].request_b_id].status = "matched"

\* the ids try_autopair can be called with: every id handed out so far and
\* the next one, which no request has
RequestIds == 1 .. nextRid

\* C8: try_autopair on a request that does not exist or is not open changes
\* nothing in the database, and neither does calling it again.
C8_NoOpUnlessOpen ==
    \A rid \in RequestIds :
        (rid \notin DOMAIN requests \/ requests[rid].status # "open")
        => /\ try_autopair(db, rid) = db
           /\ try_autopair(try_autopair(db, rid), rid) = db

\* the windows of two play requests share a minute
WindowsOverlap(r1, r2) ==
    minutes_overlap(parse_hhmm(r1.start), parse_hhmm(r1.end),
                    parse_hhmm(r2.start), parse_hhmm(r2.end)).mins > 0

\* a matched request and a deleted one, while an open request of the same date
\* and level as the matched one overlaps its window
C8_Witness ==
    /\ \E rid \in RequestIds : rid \notin DOMAIN requests
    /\ \E rid \in DOMAIN requests, c \in DOMAIN requests :
        /\ requests[rid].status = "matched"
        /\ requests[c].status = "open"
        /\ requests[c].date = requests[rid].date
        /\ requests[c].level = requests[rid].level
        /\ WindowsOverlap(requests[rid], requests[c])

NewIds(after, before) == (DOMAIN after) \ (DOMAIN before)

\* every document of collection before is in collection after, unchanged
Kept(after, before) ==
    /\ DOMAIN before \subseteq DOMAIN after
    /\ \A x \in DOMAIN before : after[x] = before[x]

\* C9: one call of try_autopair inserts at most one booking and at most one
\* proposal, a proposal iff a booking; the booking is tentative, the proposal
\* is pending_admin and references that booking; nothing else is modified.
C9_AtMostOneProposal ==
    \A rid \in RequestIds :
        LET D2 == try_autopair(db, rid)
            newB == NewIds(D2.bk, bookings)
            newP == NewIds(D2.pr, proposals)
        IN  /\ Cardinality(newB) <= 1
            /\ Cardinality(newP) <= 1
            /\ (newB = {}) <=> (newP = {})
            /\ \A b \in newB : D2.bk[b].status = "tentative"
            /\ \A q \in newP : /\ D2.pr[q].status = "pending_admin"
                               /\ D2.pr[q].booking_id \in newB
            /\ D2.req = requests
            /\ D2.hrs = hours
            /\ Kept(D2.bk, bookings)
            /\ Kept(D2.pr, proposals)

\* a call of try_autopair that inserts a proposal, in a database that already
\* holds a booking and a proposal
C9_Witness ==
    /\ DOMAIN bookings # {}
    /\ DOMAIN proposals # {}
    /\ \E rid \in RequestIds : NewIds(try_autopair(db, rid).pr, proposals) # {}

\* C10: a proposal created by try_autopair pairs the triggering request with
\* another request that is open, has the same date and a level at most 1 away.
C10_LevelBand ==
    \A rid \in RequestIds :
        LET D2 == try_autopair(db, rid)
        IN  \A q \in NewIds(D2.pr, proposals) :
                LET a == D2.pr[q].request_a_id
                    b == D2.pr[q].request_b_id
                IN  /\ a = rid
                    /\ b # rid
                    /\ b \in DOMAIN requests
                    /\ requests[b].status = "open"
                    /\ requests[b].date = requests[rid].date
                    /\ Abs(requests[rid].level - requests[b].level) <= 1
                    /\ Abs(D2.pr[q].level_a - D2.pr[q].level_b) <= 1

\* try_autopair pairs a request although an open request of the same date two
\* levels away overlaps its window
C10_Witness ==
    \E rid \in DOMAIN requests, far \in DOMAIN requests :
        /\ NewIds(try_autopair(db, rid).pr, proposals) # {}
        /\ requests[far].status = "open"
        /\ requests[far].date = requests[rid].date
        /\ Abs(requests[far].level - requests[rid].level) >= 2
        /\ WindowsOverlap(requests[rid], requests[far])

\* the form is one new_request refuses: end <= start, the club closed on the
\* weekday of the date, or no overlap of the window with the open hours
Refused(hrs, date_str, start, end) ==
    LET h == get_club_hours(hrs, date_str)
    IN  \/ end <= start
        \/ ~h.is_open
        \/ Max2(start, h.open) >= Min2(end, h.close)

\* C13: a request form with end <= start, on a weekday the club is closed, or
\* with a window that does not overlap the open hours changes nothing in the
\* database (no request stored, try_autopair not run); any other form stores
\* one open request whose window is the submitted window clamped to the hours.
C13_SubmissionGuard ==
    \A date_str \in Dates, f \in EngineForms :
        LET D2 == new_request(db, f[1], date_str, strftime(f[2]), strftime(f[3]), f[4])
            h == get_club_hours(hours, date_str)
        IN  IF Refused(hours, date_str, f[2], f[3])
            THEN D2 = db
            ELSE /\ DOMAIN D2.req = DOMAIN requests \cup {nextRid}
                 /\ nextRid \notin DOMAIN requests
                 /\ Kept(D2.req, requests)
                 /\ D2.req[nextRid].status = "open"
                 /\ D2.req[nextRid].date = date_str
                 /\ D2.req[nextRid].level = f[1]
                 /\ D2.req[nextRid].duration = f[4]
                 /\ parse_hhmm(D2.req[nextRid].start) = Max2(f[2], h.open)
                 /\ parse_hhmm(D2.req[nextRid].end) = Min2(f[3], h.close)

\* requests were handled, one stored request starts at the opening time of its
\* day, and in this state new_request refuses a form for each of the three
\* reasons and clamps the window of a form it accepts
C13_Witness ==
    /\ nops > 0
    /\ \E r \in DOMAIN requests :
          parse_hhmm(requests[r].start) = get_club_hours(hours, requests[r].date).open
    /\ \E f \in EngineForms : f[3] <= f[2]
    /\ \E date_str \in Dates, f \in EngineForms :
          f[3] > f[2] /\ ~get_club_hours(hours, date_str).is_open
    /\ \E date_str \in Dates, f \in EngineForms :
          /\ f[3] > f[2] /\ get_club_hours(hours, date_str).is_open
          /\ Refused(hours, date_str, f[2], f[3])
    /\ \E date_str \in Dates, f \in EngineForms :
          /\ ~Refused(hours, date_str, f[2], f[3])
          /\ new_request(db, f[1], date_str, strftime(f[2]), strftime(f[3]), f[4])
                .req[nextRid].start # strftime(f[2])

ProposalIds == 1 .. nextPid

\* C14: approve_proposal and reject_proposal on a proposal that is missing or
\* not pending_admin change nothing in the database; approving or rejecting a
\* proposal a second time changes nothing either.
C14_ProcessedGuard ==
    \A pid \in ProposalIds :
        /\ (pid \notin DOMAIN proposals \/ proposals[pid].status # "pending_admin")
            => /\ approve_proposal(db, pid) = db
               /\ reject_proposal(db, pid) = db
        /\ approve_proposal(approve_proposal(db, pid), pid) = approve_proposal(db, pid)
        /\ reject_proposal(reject_proposal(db, pid), pid) = reject_proposal(db, pid)
        /\ reject_proposal(approve_proposal(db, pid), pid) = approve_proposal(db, pid)
        /\ approve_proposal(reject_proposal(db, pid), pid) = reject_proposal(db, pid)

\* a rejected proposal whose cancelled booking and open requests are still in
\* the store, and a pending proposal
C14_Witness ==
    /\ \E pid \in DOMAIN proposals :
        /\ proposals[pid].status = "rejected"
        /\ proposals[pid].booking_id \in DOMAIN bookings
        /\ bookings[proposals[pid].booking_id].status = "cancelled"
        /\ IsOpenRequest(db, proposals[pid].request_a_id)
        /\ IsOpenRequest(db, proposals[pid].request_b_id)
    /\ PendingIds(db) # {}

\* C15: edit_request and delete_request on a request that is missing or not
\* open (matched) change nothing in the database, so try_autopair is not run.
C15_OpenOnly ==
    \A rid \in RequestIds :
        (rid \notin DOMAIN requests \/ requests[rid].status # "open")
        => /\ delete_request(db, rid) = db
           /\ \A level \in Levels, date_str \in Dates, f \in EditForms :
                 edit_request(db, rid, level, date_str,
                              strftime(f[1]), strftime(f[2]), f[3]) = db

\* a matched request that a pending proposal still references
C15_Witness ==
    \E rid \in DOMAIN requests, pid \in PendingIds(db) :
        /\ requests[rid].status = "matched"
        /\ rid \in {proposals[pid].request_a_id, proposals[pid].request_b_id}

\* the proposals with status pending_admin or approved that reference request rid
LiveOf(pr, rid) ==
    {p \in DOMAIN pr :
        /\ pr[p].status \in {"pending_admin", "approved"}
        /\ rid \in {pr[p].request_a_id, pr[p].request_b_id}}

\* C24: every play request is referenced, as request A or request B, by at
\* most one proposal with status pending_admin or approved.
C24_OneLiveProposalPerRequest ==
    \A rid \in DOMAIN requests : Cardinality(LiveOf(proposals, rid)) <= 1

\* C25: every matched play request is referenced by an approved proposal whose
\* booking is in the store with status confirmed.
C25_MatchedHasConfirmed ==
    \A rid \in DOMAIN requests :
        requests[rid].status = "matched" =>
            \E p \in DOMAIN proposals :
                /\ proposals[p].status = "approved"
                /\ rid \in {proposals[p].request_a_id, proposals[p].request_b_id}
                /\ proposals[p].booking_id \in DOMAIN bookings
                /\ bookings[proposals[p].booking_id].status = "confirmed"

\* C26: every proposal with status pending_admin or approved whose booking is
\* in the store records the date, court, start and end of that booking.
C26_ProposalMirrorsBooking ==
    \A p \in DOMAIN proposals :
        (/\ proposals[p].status \in {"pending_admin", "approved"}
         /\ proposals[p].booking_id \in DOMAIN bookings)
        => LET b == bookings[proposals[p].booking_id]
           IN  /\ proposals[p].date = b.date
               /\ proposals[p].court_id = b.court_id
               /\ proposals[p].slot_start = b.start
               /\ proposals[p].slot_end = b.end

\* C27: when every handler runs to completion, every proposal with status
\* pending_admin references two play requests that are in the store and a
\* booking that is in the store with status tentative.
C27_PendingRefsExist ==
    \A p \in PendingIds(db) :
        /\ proposals[p].request_a_id \in DOMAIN requests
        /\ proposals[p].request_b_id \in DOMAIN requests
        /\ proposals[p].booking_id \in DOMAIN bookings
        /\ bookings[proposals[p].booking_id].status = "tentative"

\* a pending proposal is left after a request was deleted with its pending
\* proposal, or after a booking was deleted and its proposal cancelled
C27_Witness ==
    /\ PendingIds(db) # {}
    /\ \/ /\ \E rid \in 1 .. nextRid - 1 : rid \notin DOMAIN requests
          /\ \E pid \in 1 .. nextPid - 1 : pid \notin DOMAIN proposals
       \/ \E pid \in DOMAIN proposals :
             /\ proposals[pid].status = "cancelled"
             /\ proposals[pid].booking_id \notin DOMAIN bookings

(***************************************************************************)
(* Properties of the matching engine, stated with the terms of the         *)
(* specification: the overlap of two windows, the overlap clamped to the   *)
(* hours, the score, the slot starts on the quarter-hour grid.             *)
(***************************************************************************)
OvStart(r, c) == Max2(Start(r), Start(c))
OvEnd(r, c) == Min2(End(r), End(c))

\* the overlap of the windows of r and c clamped to the hours of r's date
WinStart(r, c) == Max2(OvStart(r, c), get_club_hours(hours, r.date).open)
WinEnd(r, c) == Min2(OvEnd(r, c), get_club_hours(hours, r.date).close)

\* c has a positive overlap with r that survives clamping
Survives(r, c) ==
    /\ OvStart(r, c) < OvEnd(r, c)
    /\ get_club_hours(hours, r.date).is_open
    /\ WinStart(r, c) < WinEnd(r, c)

\* the open requests of the same date and the level band, other than rid, that survive
Survivors(rid) ==
    {c \in DOMAIN requests :
        /\ c # rid
        /\ requests[c].status = "open"
        /\ requests[c].date = requests[rid].date
        /\ Abs(requests[c].level - requests[rid].level) <= 1
        /\ Survives(requests[rid], requests[c])}

OverlapScore(r, c) == (OvEnd(r, c) - OvStart(r, c)) - 5 * Abs(r.level - c.level)

\* an active booking of the date and court shares a minute with [s, e)
Busy(date_str, court_id, s, e) ==
    \E b \in DOMAIN bookings :
        /\ bookings[b].date = date_str /\ bookings[b].court_id = court_id
        /\ IsActive(bookings[b])
        /\ Start(bookings[b]) < e /\ s < End(bookings[b])

\* the starts of the slots of r's duration in the clamped overlap of r and c
SlotStarts(r, c) ==
    {s \in WinStart(r, c) .. WinEnd(r, c) :
        /\ (s - WinStart(r, c)) % 15 = 0
        /\ s + r.duration <= WinEnd(r, c)}

NoFreeCombination(r, c) ==
    \A s \in SlotStarts(r, c), court_id \in Courts : Busy(r.date, court_id, s, s + r.duration)

OpenIds == {rid \in DOMAIN requests : requests[rid].status = "open"}

\* C11: when no candidate with a positive overlap survives clamping, or no slot
\* and court in the winning candidate's window is free, try_autopair creates no
\* proposal; and whenever it creates no proposal it leaves the whole database
\* as it was: no booking inserted, every request with the status it had.
C11_NoProposalNoChange ==
    \A rid \in OpenIds :
        LET D2 == try_autopair(db, rid)
            r == requests[rid]
            best == BestCandidate(db, rid)
        IN  /\ Survivors(rid) = {} => NewIds(D2.pr, proposals) = {}
            /\ (Survivors(rid) # {} /\ NoFreeCombination(r, requests[best.c]))
                    => NewIds(D2.pr, proposals) = {}
            /\ NewIds(D2.pr, proposals) = {} => D2 = db

\* two requests were submitted and no proposal exists: an open request has a
\* surviving candidate and slots in the window, and every court is booked for
\* every slot
C11_Witness ==
    /\ proposals = EmptyCollection
    /\ \E rid \in OpenIds :
        /\ Survivors(rid) # {}
        /\ \A c \in Survivors(rid) :
              /\ SlotStarts(requests[rid], requests[c]) # {}
              /\ NoFreeCombination(requests[rid], requests[c])

\* C12: the slot and court of a proposal try_autopair creates are first-fit:
\* the court is free for the slot, every lower court is busy for it, and for
\* every earlier slot of the winning window every court is busy; with no
\* active booking on the date the slot starts at the start of the clamped
\* overlap on court 1 (18:00-20:00 and 19:00-21:00 give 19:00-20:00, court 1).
C12_FirstFit ==
    \A rid \in OpenIds :
        LET D2 == try_autopair(db, rid)
            r == requests[rid]
        IN  \A q \in NewIds(D2.pr, proposals) :
                LET p == D2.pr[q]
                    c == requests[p.request_b_id]
                    s == parse_hhmm(p.slot_start)
                    e == parse_hhmm(p.slot_end)
                IN  /\ s \in SlotStarts(r, c)
                    /\ e = s + r.duration
                    /\ ~Busy(r.date, p.court_id, s, e)
                    /\ \A k \in Courts : k < p.court_id => Busy(r.date, k, s, e)
                    /\ \A s0 \in SlotStarts(r, c), k \in Courts :
                          s0 < s => Busy(r.date, k, s0, s0 + r.duration)
                    /\ (\A b \in DOMAIN bookings :
                            bookings[b].date = r.date => ~IsActive(bookings[b]))
                       => (s = WinStart(r, c) /\ p.court_id = 1)
                    /\ (/\ Start(r) = 1140 /\ End(r) = 1260 /\ r.duration = 60
                        /\ Start(c) = 1080 /\ End(c) = 1200
                        /\ \A k \in Courts : ~Busy(r.date, k, 1140, 1200))
                       => (/\ p.slot_start = << 1, 9, 0, 0 >>
                           /\ p.slot_end = << 2, 0, 0, 0 >>
                           /\ p.court_id = 1)

\* a pending proposal whose slot starts after the start of the overlap of its
\* requests and whose court is not court 1, the lower courts being booked
C12_Witness ==
    \E q \in PendingIds(db) :
        LET p == proposals[q]
        IN  /\ p.request_a_id \in DOMAIN requests /\ p.request_b_id \in DOMAIN requests
            /\ parse_hhmm(p.slot_start)
                 > WinStart(requests[p.request_a_id], requests[p.request_b_id])
            /\ p.court_id > 1
            /\ \A k \in Courts : k < p.court_id
                  => Busy(p.date, k, parse_hhmm(p.slot_start), parse_hhmm(p.slot_end))

\* C19: the candidate try_autopair selects is one of the candidates with a
\* positive overlap that survive clamping, its score overlap - 5 * |level
\* difference| is maximal among them, and among those of maximal score it is
\* the first in store order; a proposal that is created names it as request B.
C19_BestScore ==
    \A rid \in OpenIds :
        LET best == BestCandidate(db, rid)
            r == requests[rid]
        IN  /\ (Survivors(rid) = {}) <=> (best = NoBest)
            /\ Survivors(rid) # {} =>
                  /\ best.c \in Survivors(rid)
                  /\ best.s = WinStart(r, requests[best.c])
                  /\ best.e = WinEnd(r, requests[best.c])
                  /\ \A c \in Survivors(rid) :
                        /\ OverlapScore(r, requests[best.c]) >= OverlapScore(r, requests[c])
                        /\ OverlapScore(r, requests[best.c]) = OverlapScore(r, requests[c])
                              => best.c <= c
            /\ \A q \in NewIds(try_autopair(db, rid).pr, proposals) :
                  try_autopair(db, rid).pr[q].request_b_id = best.c

\* c is a surviving candidate of rid of maximal score
Maximal(rid, c) ==
    /\ c \in Survivors(rid)
    /\ \A d \in Survivors(rid) :
          OverlapScore(requests[rid], requests[c]) >= OverlapScore(requests[rid], requests[d])

\* proposals were created; one open request has two candidates of equal maximal
\* score, another has a later candidate that beats an earlier one
C19_Witness ==
    /\ proposals # EmptyCollection
    /\ \E rid \in OpenIds, c1 \in OpenIds, c2 \in OpenIds :
          c1 < c2 /\ Maximal(rid, c1) /\ Maximal(rid, c2)
    /\ \E rid \in OpenIds, c1 \in OpenIds, c2 \in OpenIds :
          /\ c1 < c2 /\ c1 \in Survivors(rid) /\ Maximal(rid, c2)
          /\ OverlapScore(requests[rid], requests[c1])
               < OverlapScore(requests[rid], requests[c2])

\* C20: the slot of a proposal try_autopair creates is as long as the
\* triggering request's duration, starts a multiple of 15 minutes after the
\* start of the clamped overlap, and lies inside the window of the triggering
\* request, the window of the candidate and the open hours of the date; the
\* tentative booking has the same slot.
C20_SlotShape ==
    \A rid \in OpenIds :
        LET D2 == try_autopair(db, rid)
            r == requests[rid]
            h == get_club_hours(hours, r.date)
        IN  \A q \in NewIds(D2.pr, proposals) :
                LET p == D2.pr[q]
                    c == requests[p.request_b_id]
                    s == parse_hhmm(p.slot_start)
                    e == parse_hhmm(p.slot_end)
                IN  /\ e - s = r.duration
                    /\ s >= WinStart(r, c)
                    /\ (s - WinStart(r, c)) % 15 = 0
                    /\ Start(r) <= s /\ e <= End(r)
                    /\ Start(c) <= s /\ e <= End(c)
                    /\ h.is_open /\ h.open <= s /\ e <= h.close
                    /\ p.booking_id \in NewIds(D2.bk, bookings)
                    /\ D2.bk[p.booking_id].start = p.slot_start
                    /\ D2.bk[p.booking_id].end = p.slot_end
                    /\ D2.bk[p.booking_id].date = r.date
                    /\ D2.bk[p.booking_id].court_id = p.court_id

\* a pending proposal of a 45-minute request whose stored window starts before
\* the club opens; its slot starts a positive multiple of 15 minutes after the
\* start of the clamped overlap
C20_Witness ==
    \E q \in PendingIds(db) :
        LET p == proposals[q]
        IN  /\ p.request_a_id \in OpenIds /\ p.request_b_id \in OpenIds
            /\ requests[p.request_a_id].duration = 45
            /\ Start(requests[p.request_a_id]) < get_club_hours(hours, p.date).open
            /\ parse_hhmm(p.slot_start)
                 > WinStart(requests[p.request_a_id], requests[p.request_b_id])

(***************************************************************************)
(* Properties of the interleaved approve and reject.                       *)
(***************************************************************************)
\* C28: once the approve and the reject of a proposal have both returned, the
\* store is as one of them alone leaves it: a rejected proposal has no matched
\* request and no confirmed booking, an approved proposal no cancelled booking.
C28_ApproveRejectSerial ==
    (\A w \in Procs : pc[w] = "idle") =>
        \A p \in DOMAIN proposals :
            LET doc == proposals[p]
                b == bookings[doc.booking_id]
            IN  /\ doc.status = "rejected" =>
                      /\ requests[doc.request_a_id].status # "matched"
                      /\ requests[doc.request_b_id].status # "matched"
                      /\ b.status # "confirmed"
                /\ doc.status = "approved" => b.status # "cancelled"

(***************************************************************************)
(* Properties of the court checks.                                         *)
(***************************************************************************)
\* the bookings of a date and court, of any status, that the slot [s, e) runs into
InSlot(date_str, court_id, s, e) ==
    {b \in DOMAIN bookings :
        /\ bookings[b].date = date_str /\ bookings[b].court_id = court_id
        /\ ~(e <= Start(bookings[b]) \/ s >= End(bookings[b]))}

\* an active booking other than except holds the court in [s, e)
BusyExcept(date_str, court_id, s, e, except) ==
    \E b \in InSlot(date_str, court_id, s, e) \ {except} : IsActive(bookings[b])

\* C21: court_is_free(date, court, s, e) is true iff no tentative or confirmed
\* booking of that date and court satisfies NOT (e <= b.start OR s >= b.end);
\* cancelled bookings, bookings of other courts or dates and bookings that only
\* touch the slot at an endpoint do not block.
C21_CourtIsFree ==
    call # NoCall /\ call.fn = "court_is_free" =>
        LET date_str == call.args[1]
            court_id == call.args[2]
            s == call.args[3]
            e == call.args[4]
        IN  ret = (\A b \in InSlot(date_str, court_id, s, e) :
                        bookings[b].status \notin {"tentative", "confirmed"})

\* a court answered free although a cancelled booking lies in the slot, an active
\* booking touches the slot at an endpoint, and the slot is taken on another court
C21_Witness ==
    /\ call # NoCall /\ call.fn = "court_is_free" /\ ret = TRUE
    /\ LET date_str == call.args[1]
           court_id == call.args[2]
           s == call.args[3]
           e == call.args[4]
       IN  /\ \E b \in InSlot(date_str, court_id, s, e) :
                  bookings[b].status = "cancelled"
           /\ \E b \in DOMAIN bookings :
                  /\ bookings[b].date = date_str /\ bookings[b].court_id = court_id
                  /\ IsActive(bookings[b])
                  /\ (End(bookings[b]) = s \/ Start(bookings[b]) = e)
           /\ \E c \in Courts \ {court_id} :
                  \E b \in InSlot(date_str, c, s, e) : IsActive(bookings[b])

\* C22: court_is_free_excluding(date, court, s, e, id) answers what court_is_free
\* answers on the store without the booking id; the two answer alike on the
\* store itself when id is not an active booking of that date and court.
C22_ExcludingIsRemoval ==
    call # NoCall /\ call.fn = "court_is_free_excluding" =>
        LET date_str == call.args[1]
            court_id == call.args[2]
            s == call.args[3]
            e == call.args[4]
            exclude_id == call.args[5]
            on_court == /\ exclude_id \in DOMAIN bookings
                        /\ bookings[exclude_id].date = date_str
                        /\ bookings[exclude_id].court_id = court_id
                        /\ IsActive(bookings[exclude_id])
        IN  /\ ret = court_is_free(Remove(bookings, {exclude_id}), date_str, court_id, s, e)
            /\ ~on_court => ret = court_is_free(bookings, date_str, court_id, s, e)

\* the excluded booking is the only one that holds the court in the slot
C22_Witness ==
    /\ call # NoCall /\ call.fn = "court_is_free_excluding" /\ ret = TRUE
    /\ call.args[5] \in DOMAIN bookings
    /\ ~court_is_free(bookings, call.args[1], call.args[2], call.args[3], call.args[4])

\* the booking documents and the other collections of D2 are those of the store
SameBookings(D2) == D2 = db

\* C23: create_manual_booking, edit_booking and change_booking_court leave the
\* database as it is when the form has end <= start, the club is closed (or the
\* window misses the open hours), or an active booking other than the edited
\* one holds the target court in the clamped interval; otherwise the manual
\* booking is inserted as confirmed, the edited booking takes the clamped
\* interval, date and court, and the moved booking takes the new court.
C23_CommitOnlyWhenFree ==
    /\ \A date_str \in Dates, w \in CourtWindows, court_id \in FormCourts :
          LET h == get_club_hours(hours, date_str)
              s == Max2(w[1], h.open)
              e == Min2(w[2], h.close)
              D2 == create_manual_booking(db, date_str, strftime(w[1]), strftime(w[2]),
                                          court_id)
              doc == [date |-> date_str, court_id |-> court_id, start |-> strftime(s),
                      end |-> strftime(e), status |-> "confirmed"]
          IN  IF Refused(hours, date_str, w[1], w[2])
                    \/ BusyExcept(date_str, court_id, s, e, 0)
              THEN SameBookings(D2)
              ELSE D2 = [db EXCEPT !.bk = Insert(bookings, nextBid, doc),
                                   !.bid = nextBid + 1]
    /\ \A booking_id \in DOMAIN bookings, date_str \in Dates, w \in CourtWindows,
            court_id \in FormCourts :
          LET h == get_club_hours(hours, date_str)
              s == Max2(w[1], h.open)
              e == Min2(w[2], h.close)
              D2 == edit_booking(db, booking_id, date_str, strftime(w[1]), strftime(w[2]),
                                 court_id)
          IN  IF Refused(hours, date_str, w[1], w[2])
                    \/ BusyExcept(date_str, court_id, s, e, booking_id)
              THEN SameBookings(D2)
              ELSE D2 = [db EXCEPT !.bk[booking_id].date = date_str,
                                   !.bk[booking_id].court_id = court_id,
                                   !.bk[booking_id].start = strftime(s),
                                   !.bk[booking_id].end = strftime(e)]
    /\ \A booking_id \in DOMAIN bookings, new_court \in FormCourts :
          LET b == bookings[booking_id]
              D2 == change_booking_court(db, booking_id, new_court)
          IN  IF new_court = b.court_id
                    \/ BusyExcept(b.date, new_court, Start(b), End(b), booking_id)
              THEN SameBookings(D2)
              ELSE D2 = [db EXCEPT !.bk[booking_id].court_id = new_court]

\* a manual booking was made, a second one on its slot is refused, its own edit
\* in place is let through, and its move to the other court is refused
C23_Witness ==
    /\ \E b \in DOMAIN bookings :
          /\ bookings[b].status = "confirmed"
          /\ \A p \in DOMAIN proposals : proposals[p].booking_id # b
          /\ BusyExcept(bookings[b].date, bookings[b].court_id, Start(bookings[b]),
                        End(bookings[b]), 0)
          /\ ~BusyExcept(bookings[b].date, bookings[b].court_id, Start(bookings[b]),
                         End(bookings[b]), b)
          /\ \E c \in FormCourts \ {bookings[b].court_id} :
                BusyExcept(bookings[b].date, c, Start(bookings[b]), End(bookings[b]), b)
    /\ \E b \in DOMAIN bookings : bookings[b].status = "cancelled"

(***************************************************************************)
(* Properties of the utilities.                                            *)
(***************************************************************************)
\* C16: clamp_to_hours returns (max(start, open), min(end, close), true) when
\* the rule of the date's weekday is open and max(start, open) < min(end,
\* close), and (none, none, false) otherwise; an interval it returns is not
\* empty and lies between the open and the close time of the rule.
C16_ClampToHours ==
    call.fn = "clamp_to_hours" =>
        LET rule == hours[weekday(call.args[1])]
            open == parse_hhmm(rule.open)
            close == parse_hhmm(rule.close)
            start == call.args[2]
            end == call.args[3]
        IN  /\ IF rule.is_open /\ Max2(start, open) < Min2(end, close)
               THEN ret = [s |-> Max2(start, open), e |-> Min2(end, close), is_open |-> TRUE]
               ELSE ret = [s |-> None, e |-> None, is_open |-> FALSE]
            /\ ret.is_open => (ret.s < ret.e /\ open <= ret.s /\ ret.e <= close)

\* a call that moves both ends of the interval, after the hours were changed
C16_Witness ==
    /\ call.fn = "clamp_to_hours"
    /\ hours[weekday(call.args[1])] # DefaultRule(weekday(call.args[1]))
    /\ ret.is_open
    /\ ret.s > call.args[2]
    /\ ret.e < call.args[3]

\* the number of k >= 0 with start + k * step + d <= end
SlotCount(start, end, d, step) ==
    IF start + d > end THEN 0 ELSE ((end - d - start) \div step) + 1

\* C17: for d > 0 and step > 0, discrete_slots returns exactly the windows
\* [start + k * step, start + k * step + d) with start + k * step + d <= end, in
\* increasing order of k: each lies in [start, end], consecutive starts are step
\* apart, the first starts at start, and there is none when d > end - start.
C17_DiscreteSlots ==
    call.fn = "discrete_slots" =>
        LET start == call.args[1]
            end == call.args[2]
            d == call.args[3]
            step == call.args[4]
        IN  /\ Len(ret) = SlotCount(start, end, d, step)
            /\ \A k \in 1 .. Len(ret) :
                  /\ ret[k] = << start + (k - 1) * step, start + (k - 1) * step + d >>
                  /\ start <= ret[k][1] /\ ret[k][2] <= end
                  /\ k > 1 => ret[k][1] - ret[k - 1][1] = step
            /\ Len(ret) > 0 => ret[1][1] = start
            /\ d > end - start => ret = << >>

\* a call that returns three slots or more, the last ending before the end
C17_Witness ==
    /\ call.fn = "discrete_slots"
    /\ Len(ret) >= 3
    /\ ret[Len(ret)][2] < call.args[2]

\* C18: minutes_overlap returns the same minutes and bounds with its two
\* intervals exchanged, and returns (0, none, none) exactly when the later start
\* is not before the earlier end; otherwise the bounds are the later start and
\* the earlier end and the minutes their difference.
C18_OverlapSymmetric ==
    call.fn = "minutes_overlap" =>
        LET a_start == call.args[1]
            a_end == call.args[2]
            b_start == call.args[3]
            b_end == call.args[4]
        IN  /\ ret = minutes_overlap(b_start, b_end, a_start, a_end)
            /\ (ret = [mins |-> 0, start |-> None, end |-> None])
                 <=> (Max2(a_start, b_start) >= Min2(a_end, b_end))
            /\ ret.mins > 0 =>
                  /\ ret.start = Max2(a_start, b_start)
                  /\ ret.end = Min2(a_end, b_end)
                  /\ ret.mins = ret.end - ret.start

\* a call on two intervals that overlap, neither containing the other
C18_Witness ==
    /\ call.fn = "minutes_overlap"
    /\ ret.mins > 0
    /\ call.args[1] < call.args[3]
    /\ call.args[2] < call.args[4]

(***************************************************************************)
(* Properties of the interleaved specification.                            *)
(***************************************************************************)
\* worker p inserts the booking it has checked for, in this step
InsertsBooking(p) ==
    /\ pc[p] \in {"ta_book", "mb_insert"}
    /\ pc'[p] # pc[p]

\* the court_is_free query worker p has passed would fail on the bookings now
StaleCheck(p) ==
    ~court_is_free(bookings, loc[p].date, loc[p].court_id,
                   loc[p].slots[loc[p].i][1], loc[p].slots[loc[p].i][2])

\* C2: the court_is_free query and the insert of the booking are separate
\* store steps: a double booking appears, and appears only, in the insert step
\* of a worker whose court was taken between its query and its insert.
C2_RaceWindow ==
    [][(~DoubleBooked(bookings) /\ DoubleBooked(bookings'))
        => \E p \in Procs : InsertsBooking(p) /\ StaleCheck(p)]_vars

\* a tentative booking of try_autopair overlaps another active booking of its
\* date and court
C2_Witness ==
    \E b1 \in DOMAIN bookings, b2 \in DOMAIN bookings :
        bookings[b1].status = "tentative" /\ Clash(bookings, b1, b2)

\* C5: in no state of an interleaved execution does a tentative booking exist
\* without a pending proposal referencing it.
C5_BookingHasProposal ==
    \A b \in DOMAIN bookings :
        bookings[b].status = "tentative" => PendingOf(proposals, b) # {}

=============================================================================
